---- MODULE Spec2Model ----
(***************************************************************************)
(* A model of pycco's section splitter (parse), comment preprocessor       *)
(* (preprocess) and translation merger (merge_docs), src/pycco/main.py.    *)
(*                                                                         *)
(* A Python string is a sequence of one-character strings, so that         *)
(* splitting, stripping, concatenation and pattern substitution are        *)
(* computed character by character as the code computes them.              *)
(***************************************************************************)
EXTENDS Integers, Sequences, FiniteSets, TLC

VARIABLES pc, text, renderer, lines, pos, title, chunk, multi_line, sections,
          comment_in, comment, source_doc, translation_doc, doc

vars == <<pc, text, renderer, lines, pos, title, chunk, multi_line, sections,
          comment_in, comment, source_doc, translation_doc, doc>>

parseVars == <<text, renderer, lines, pos, title, chunk, multi_line, sections>>
preVars   == <<comment_in, comment>>
mergeVars == <<source_doc, translation_doc, doc>>

(* ------------------------------ bounds -------------------------------- *)

\* Most lines of an input text after its interpreter directive and title.
MaxLines == 4
\* Most tokens of a comment handed to preprocess.
MaxTokens == 3
\* Most sections of a document handed to merge_docs.
MaxSections == 2

(* --------------------------- Python strings --------------------------- *)

NL == "\n"
\* The backtick character (U+0060), which a TLA+ string literal cannot hold.
BT == "BACKTICK"

\* The characters str.strip(), str.lstrip(), str.rstrip() and \s remove.
Whitespace == {" ", "\t", NL, "\r"}

\* s[a..b] with 1-based inclusive indices; empty when a > b.
Slice(s, a, b) == IF a > b THEN <<>> ELSE SubSeq(s, a, b)

\* s.startswith(p)
StartsWith(s, p) == Len(p) <= Len(s) /\ SubSeq(s, 1, Len(p)) = p

\* s.endswith(p)
EndsWith(s, p) == Len(p) <= Len(s) /\ SubSeq(s, Len(s) - Len(p) + 1, Len(s)) = p

\* Whether p occurs in s at index i.
OccursAt(s, p, i) == i >= 1 /\ i + Len(p) - 1 <= Len(s) /\ SubSeq(s, i, i + Len(p) - 1) = p

\* p in s
Contains(s, p) == \E i \in 1..(Len(s) + 1) : OccursAt(s, p, i)

RECURSIVE LStrip(_)
\* s.lstrip()
LStrip(s) == IF s # <<>> /\ Head(s) \in Whitespace THEN LStrip(Tail(s)) ELSE s

RECURSIVE RStrip(_)
\* s.rstrip()
RStrip(s) == IF s # <<>> /\ s[Len(s)] \in Whitespace THEN RStrip(SubSeq(s, 1, Len(s) - 1)) ELSE s

\* s.strip()
Strip(s) == LStrip(RStrip(s))

RECURSIVE Replace(_, _, _)
\* s.replace(old, new) for a non-empty old: leftmost, non-overlapping.
Replace(s, old, new) ==
    IF s = <<>> THEN <<>>
    ELSE IF StartsWith(s, old) THEN new \o Replace(Slice(s, Len(old) + 1, Len(s)), old, new)
    ELSE <<Head(s)>> \o Replace(Tail(s), old, new)

RECURSIVE SplitFrom(_, _, _)
SplitFrom(s, sep, cur) ==
    IF s = <<>> THEN <<cur>>
    ELSE IF Head(s) = sep THEN <<cur>> \o SplitFrom(Tail(s), sep, <<>>)
    ELSE SplitFrom(Tail(s), sep, Append(cur, Head(s)))

\* s.split(sep) for a one-character sep: never an empty list.
Split(s, sep) == SplitFrom(s, sep, <<>>)

RECURSIVE Join(_, _)
\* sep.join(parts)
Join(parts, sep) ==
    IF parts = <<>> THEN <<>>
    ELSE IF Len(parts) = 1 THEN parts[1]
    ELSE parts[1] \o sep \o Join(Tail(parts), sep)

RECURSIVE Concat(_)
\* "".join(parts)
Concat(parts) == IF parts = <<>> THEN <<>> ELSE Head(parts) \o Concat(Tail(parts))

\* All sequences over S of length lo..hi.
SeqsOf(S, lo, hi) == UNION {[1..n -> S] : n \in lo..hi}

(* ------------------------------ renderers ----------------------------- *)

\* renderer_flavors['markdown']: both delimiters are three backticks.
renderer_flavors == [multistart |-> <<BT, BT, BT>>, multiend |-> <<BT, BT, BT>>]

\* prepare_renderer: the dict it returns has func, multistart and multiend
\* and no other key ('func' is the external rendering engine, see Render).
prepare_renderer == [multistart |-> renderer_flavors.multistart,
                     multiend   |-> renderer_flavors.multiend]

\* renderer.get(key) for a delimiter key: an absent key gives None, which
\* the code only tests for truth; None and '' are both the empty sequence.
GetDelim(r, key) == IF key \in DOMAIN r THEN r[key] ELSE <<>>

\* renderer.get("strip_multi_delimiters"): None (false) when the key is absent.
GetStrip(r) == IF "strip_multi_delimiters" \in DOMAIN r THEN r["strip_multi_delimiters"] ELSE FALSE

\* The renderers a caller can pass to parse: the one prepare_renderer builds,
\* a caller-built one that asks for delimiter stripping, and one with no
\* block delimiters.
Renderers ==
    { prepare_renderer,
      [multistart |-> <<BT, BT, BT>>, multiend |-> <<BT, BT, BT>>, strip_multi_delimiters |-> TRUE],
      [multistart |-> <<>>, multiend |-> <<>>] }

(* -------------------------------- parse ------------------------------- *)

\* The ways an input text begins: an interpreter directive alone, a
\* directive and a title, a title, an empty first line.
Headers ==
    { << <<"#", "!">> >>,
      << <<"#", "!">>, <<"t">> >>,
      << <<"t">> >>,
      << <<>> >> }

\* The lines that follow: a blank line, an ordinary line, a bare delimiter,
\* a block opener, a one-line block, a line that ends with the delimiter
\* after leading whitespace, a heading.
LineSet ==
    { <<>>,
      <<"a">>,
      <<BT, BT, BT>>,
      <<BT, BT, BT, "p">>,
      <<BT, BT, BT, "c", BT, BT, BT>>,
      <<" ", "b", BT, BT, BT>>,
      <<"=", "h", "=">> }

\* The input texts: a header and 0..MaxLines further lines, joined by
\* newlines (the empty first line alone is the empty text).
Texts == {Join(h \o ls, <<NL>>) : h \in Headers, ls \in SeqsOf(LineSet, 0, MaxLines)}

\* The language get_language resolved; parse only carries it through.
language == "en"

\* Save without its guard: every chunk, empty or not, becomes a section.
SaveAlways(secs, c) == Append(secs, [text |-> c])

\* parse.save: append the chunk as a section unless it is empty.
Save(secs, c) == IF c # <<>> THEN Append(secs, [text |-> c]) ELSE secs

\* all(multi_line_delimiters): both delimiters are set and non-empty.
AllDelimiters(r) == GetDelim(r, "multistart") # <<>> /\ GetDelim(r, "multiend") # <<>>

\* The condition of the first branch of the loop body: both delimiters are
\* set and the line starts (after lstrip) or ends (after rstrip) with one.
IsDelimiterLine(line, r) ==
    /\ AllDelimiters(r)
    /\ \E delim \in {GetDelim(r, "multistart"), GetDelim(r, "multiend")} :
          StartsWith(LStrip(line), delim) \/ EndsWith(RStrip(line), delim)

\* The toggle alone, without the reset for a block that closes on its
\* opening line.
ToggleOnly(m, line, r) == ~m

\* The flag after a delimiter line: toggled, and forced off again when the
\* toggle turned it on but the stripped line ends with the end delimiter and
\* is longer than it.
ToggleMultiLine(m, line, r) ==
    LET toggled == ~m
    IN  IF /\ toggled
           /\ EndsWith(Strip(line), GetDelim(r, "multiend"))
           /\ Len(Strip(line)) > Len(GetDelim(r, "multiend"))
        THEN FALSE
        ELSE toggled

\* The stripping done for every renderer, whether it asks for it or not.
StripAlways(line, r) == Replace(Replace(line, r["multistart"], <<>>), r["multiend"], <<>>)

\* The delimiter line as it goes into the buffer: both delimiters removed
\* only when the renderer has a true "strip_multi_delimiters" entry.
StripDelimiters(line, r) ==
    IF GetStrip(r)
    THEN Replace(Replace(line, r["multistart"], <<>>), r["multiend"], <<>>)
    ELSE line

\* The delimiter branch when an opening line replaces the buffer instead of
\* following a flush of it: pending lines are dropped.
DelimiterBodyNoFlush(c, secs, m, line) ==
    IF m THEN [chunk |-> line, sections |-> secs]
    ELSE [chunk |-> <<>>, sections |-> Append(secs, [text |-> c \o <<NL>> \o line])]

\* The buffer and the section list after the body of the delimiter branch,
\* given the new flag m and the (possibly stripped) line.
DelimiterBody(c, secs, m, line) ==
    LET c1 == IF ~m THEN c \o <<NL>> \o line ELSE c
        s2 == IF c1 # <<>> THEN Save(secs, c1) ELSE secs
        c2 == IF c1 # <<>> THEN <<>> ELSE c1
        c3 == IF m THEN c2 \o line ELSE c2
    IN  [chunk |-> c3, sections |-> s2]

InitParse ==
    /\ pc = "start"
    /\ text \in Texts
    /\ renderer \in Renderers
    /\ lines = <<>>
    /\ pos = 1
    /\ title = <<>>
    /\ chunk = <<>>
    /\ multi_line = FALSE
    /\ sections = <<>>
    /\ comment_in = <<>>
    /\ comment = <<>>
    /\ source_doc = <<>>
    /\ translation_doc = <<>>
    /\ doc = <<>>

\* The line the loop is at.
AtLine == pc = "loop" /\ pos <= Len(lines)
Line == lines[pos]

\* Split the text, drop an interpreter directive, pop the title. lines.pop(0)
\* on an empty list raises IndexError.
ParseBegin ==
    /\ pc = "start"
    /\ LET all   == Split(text, NL)
           noshb == IF StartsWith(all[1], <<"#", "!">>) THEN Tail(all) ELSE all
       IN  IF noshb = <<>>
           THEN /\ pc' = "IndexError"
                /\ UNCHANGED <<lines, title>>
           ELSE /\ pc' = "loop"
                /\ title' = Head(noshb)
                /\ lines' = Tail(noshb)
    /\ pos' = 1
    /\ chunk' = <<>>
    /\ multi_line' = FALSE
    /\ sections' = <<>>
    /\ UNCHANGED <<text, renderer, preVars, mergeVars>>

\* A line that starts or ends with a block delimiter.
DelimiterLine ==
    /\ AtLine
    /\ IsDelimiterLine(Line, renderer)
    /\ LET m == ToggleMultiLine(multi_line, Line, renderer)
           b == DelimiterBody(chunk, sections, m, StripDelimiters(Line, renderer))
       IN  /\ multi_line' = m
           /\ chunk' = b.chunk
           /\ sections' = b.sections
    /\ pos' = pos + 1
    /\ UNCHANGED <<pc, text, renderer, lines, title, preVars, mergeVars>>

\* The block branch when a blank line inside a block separates sections as
\* it does outside one.
BlockLineBlankSeparates ==
    /\ AtLine
    /\ ~IsDelimiterLine(Line, renderer)
    /\ multi_line
    /\ IF Line = <<>>
       THEN sections' = Save(sections, chunk) /\ chunk' = <<>>
       ELSE chunk' = chunk \o <<NL>> \o Line /\ UNCHANGED sections
    /\ pos' = pos + 1
    /\ UNCHANGED <<pc, text, renderer, lines, title, multi_line, preVars, mergeVars>>

\* Any other line inside a block: appended, blank or not.
BlockLine ==
    /\ AtLine
    /\ ~IsDelimiterLine(Line, renderer)
    /\ multi_line
    /\ chunk' = chunk \o <<NL>> \o Line
    /\ pos' = pos + 1
    /\ UNCHANGED <<pc, text, renderer, lines, title, multi_line, sections, preVars, mergeVars>>

\* A non-empty line outside a block: appended.
OrdinaryLine ==
    /\ AtLine
    /\ ~IsDelimiterLine(Line, renderer)
    /\ ~multi_line
    /\ Line # <<>>
    /\ chunk' = chunk \o <<NL>> \o Line
    /\ pos' = pos + 1
    /\ UNCHANGED <<pc, text, renderer, lines, title, multi_line, sections, preVars, mergeVars>>

\* An empty line outside a block: the buffer is saved and reset.
BlankLine ==
    /\ AtLine
    /\ ~IsDelimiterLine(Line, renderer)
    /\ ~multi_line
    /\ Line = <<>>
    /\ sections' = Save(sections, chunk)
    /\ chunk' = <<>>
    /\ pos' = pos + 1
    /\ UNCHANGED <<pc, text, renderer, lines, title, multi_line, preVars, mergeVars>>

\* After the last line: save the buffer and return the document.
ParseEnd ==
    /\ pc = "loop"
    /\ pos > Len(lines)
    /\ sections' = Save(sections, chunk)
    /\ doc' = [title |-> title, sections |-> sections', language |-> language]
    /\ pc' = "parsed"
    /\ UNCHANGED <<text, renderer, lines, pos, title, chunk, multi_line, preVars,
                   source_doc, translation_doc>>

(* ------------------------------ preprocess ---------------------------- *)

\* str.lower() on the letters the model's comments use.
Lower(s) == [k \in 1..Len(s) |-> IF s[k] = "H" THEN "h" ELSE s[k]]

\* sanitize_section_name: "-".join(name.lower().strip().split(" "))
sanitize_section_name(name) == Join(Split(Strip(Lower(name)), " "), <<"-">>)

\* The length of the longest prefix of s[i..] whose characters satisfy
\* (are in / are not in, per `inside`) the set cs.
RECURSIVE RunLen(_, _, _, _)
RunLen(s, i, cs, inside) ==
    IF i <= Len(s) /\ ((s[i] \in cs) = inside) THEN 1 + RunLen(s, i + 1, cs, inside) ELSE 0

\* The match of '^([=]+)([^=]+)[=]*\s*$' (no MULTILINE flag): ^ is the start
\* of the whole text only, [^=] and \s take newlines, and the greedy match
\* runs to the end of the text. n, m, k: the lengths of the leading '=' run,
\* of the text after it, and of the trailing '=' run.
HeadingMatch(s) ==
    LET n == RunLen(s, 1, {"="}, TRUE)
        m == RunLen(s, n + 1, {"="}, FALSE)
        k == RunLen(s, n + m + 1, {"="}, TRUE)
        w == RunLen(s, n + m + k + 1, Whitespace, TRUE)
    IN  [ok |-> n >= 1 /\ m >= 1 /\ n + m + k + w = Len(s), n |-> n, m |-> m]

\* replace_section_name: '%(lvl)s <span id="%(id)s" href="%(id)s">%(name)s</span>'
replace_section_name(group1, group2) ==
    LET lvl == [k \in 1..Len(group1) |-> "#"]
        id  == sanitize_section_name(group2)
    IN  lvl \o <<" ", "<", "s", "p", "a", "n", " ", "i", "d", "=", "\"">> \o id
            \o <<"\"", " ", "h", "r", "e", "f", "=", "\"">> \o id
            \o <<"\"", ">">> \o group2 \o <<"<", "/", "s", "p", "a", "n", ">">>

\* re.sub('^([=]+)([^=]+)[=]*\s*$', replace_section_name, comment)
SubSectionName(s) ==
    LET h == HeadingMatch(s)
    IN  IF h.ok
        THEN replace_section_name(SubSeq(s, 1, h.n), SubSeq(s, h.n + 1, h.n + h.m))
        ELSE s

\* The index after the last "/" of p (1 when there is none): rfind + 1.
RECURSIVE AfterLastSlash(_, _)
AfterLastSlash(p, i) == IF i >= 1 /\ p[i] # "/" THEN AfterLastSlash(p, i - 1) ELSE i + 1

\* os.path.basename
Basename(p) == Slice(p, AfterLastSlash(p, Len(p)), Len(p))

RECURSIVE RStripSlash(_)
RStripSlash(p) == IF p # <<>> /\ p[Len(p)] = "/" THEN RStripSlash(SubSeq(p, 1, Len(p) - 1)) ELSE p

\* os.path.split: (head, tail); head loses its trailing slashes unless it is
\* made of slashes only.
PathSplit(p) ==
    LET i == AfterLastSlash(p, Len(p))
        h == Slice(p, 1, i - 1)
    IN  [head |-> IF RStripSlash(h) # <<>> THEN RStripSlash(h) ELSE h,
         tail |-> Slice(p, i, Len(p))]

\* os.path.join of two parts.
PathJoin(a, b) ==
    IF StartsWith(b, <<"/">>) THEN b
    ELSE IF a = <<>> \/ EndsWith(a, <<"/">>) THEN a \o b
    ELSE a \o <<"/">> \o b

\* The index of the last "." of s at or before i, 0 when there is none.
RECURSIVE LastDot(_, _)
LastDot(s, i) == IF i >= 1 /\ s[i] # "." THEN LastDot(s, i - 1) ELSE i

\* The output directory process() hands to destination.
outdir == <<"d", "o", "c", "s">>

\* destination(filepath) as process() calls it (preserve_paths=True,
\* strip_paths=0, override_ext='.html'): the extension, if any, becomes
\* '.html' and the path is put under outdir.
destination(filepath) ==
    LET sp   == PathSplit(filepath)
        d    == LastDot(sp.tail, Len(sp.tail))
        name == IF d >= 1 THEN Slice(sp.tail, 1, d - 1) \o <<".", "h", "t", "m", "l">>
                          ELSE sp.tail
    IN  PathJoin(outdir, PathJoin(sp.head, name))

\* The number of occurrences of the character c in s.
RECURSIVE Count(_, _)
Count(s, c) == IF s = <<>> THEN 0 ELSE (IF Head(s) = c THEN 1 ELSE 0) + Count(Tail(s), c)

\* replace_crossref for a match whose group(1) is g; the caller has checked
\* that g.split('#') unpacks (Count(g, "#") <= 1).
replace_crossref(g) ==
    IF Count(g, "#") > 0
    THEN LET parts == Split(g, "#")
         IN  <<" ", "[">> \o parts[1] \o <<"]", "(">> \o Basename(destination(parts[1]))
                 \o <<"#">> \o parts[2] \o <<")">>
    ELSE <<" ", "[">> \o g \o <<"]", "(">> \o Basename(destination(g)) \o <<")">>

\* The least j >= i with "]]" at j, 0 when there is none.
RECURSIVE FirstClose(_, _)
FirstClose(s, i) ==
    IF i + 1 > Len(s) THEN 0
    ELSE IF s[i] = "]" /\ s[i + 1] = "]" THEN i
    ELSE FirstClose(s, i + 1)

\* The match of '[^`]\[\[(.+?)\]\]' that starts at i, as the index of its
\* "]]" (0: no match there). One character that is not a backtick, "[[", the
\* shortest non-empty run without a newline, "]]".
CrossrefMatchAt(s, i) ==
    IF i + 5 <= Len(s) /\ s[i] # BT /\ s[i + 1] = "[" /\ s[i + 2] = "["
    THEN LET j == FirstClose(s, i + 4)
         IN  IF j > 0 /\ Count(SubSeq(s, i + 3, j - 1), NL) = 0 THEN j ELSE 0
    ELSE 0

\* The leftmost non-overlapping matches in s[i..], each as <<start, close>>.
RECURSIVE CrossrefMatches(_, _)
CrossrefMatches(s, i) ==
    IF i > Len(s) THEN <<>>
    ELSE LET j == CrossrefMatchAt(s, i)
         IN  IF j > 0 THEN << <<i, j>> >> \o CrossrefMatches(s, j + 2)
             ELSE CrossrefMatches(s, i + 1)

\* Whether replace_crossref raises on some match: name, anchor = g.split('#')
\* is a ValueError when g holds more than one '#'.
CrossrefRaises(s) ==
    LET ms == CrossrefMatches(s, 1)
    IN  \E k \in 1..Len(ms) : Count(SubSeq(s, ms[k][1] + 3, ms[k][2] - 1), "#") > 1

\* s[i..] with every match in ms replaced.
RECURSIVE SubMatches(_, _, _)
SubMatches(s, i, ms) ==
    IF ms = <<>> THEN Slice(s, i, Len(s))
    ELSE Slice(s, i, ms[1][1] - 1)
             \o replace_crossref(SubSeq(s, ms[1][1] + 3, ms[1][2] - 1))
             \o SubMatches(s, ms[1][2] + 2, Tail(ms))

\* re.sub('[^`]\[\[(.+?)\]\]', replace_crossref, comment)
SubCrossref(s) == SubMatches(s, 1, CrossrefMatches(s, 1))

\* preprocess(comment, section_nr, destination) when nothing raises.
preprocess(c) == SubCrossref(SubSectionName(c))

\* Whether preprocess(c) raises.
preprocessRaises(c) == CrossrefRaises(SubSectionName(c))

\* The pieces a comment is made of.
CommentTokens ==
    { <<"[", "[", "a", "]", "]">>,
      <<"[", "[", "a", ".", "p", "#", "b", "]", "]">>,
      <<"[", "[", "a", "#", "b", "#", "b", "]", "]">>,
      <<BT>>,
      <<"x">>,
      <<" ">>,
      <<NL>>,
      <<"=">>,
      <<" ", "H", " ", "s", " ">> }

\* The comments handed to preprocess: 0..MaxTokens pieces, concatenated.
Comments == {Concat(ts) : ts \in SeqsOf(CommentTokens, 0, MaxTokens)}

InitPre ==
    /\ pc = "pre"
    /\ comment_in \in Comments
    /\ comment = comment_in
    /\ text = <<>>
    /\ renderer = prepare_renderer
    /\ lines = <<>>
    /\ pos = 1
    /\ title = <<>>
    /\ chunk = <<>>
    /\ multi_line = FALSE
    /\ sections = <<>>
    /\ source_doc = <<>>
    /\ translation_doc = <<>>
    /\ doc = <<>>

\* comment = re.sub(<heading pattern>, replace_section_name, comment)
PreSectionName ==
    /\ pc = "pre"
    /\ comment' = SubSectionName(comment)
    /\ pc' = "pre_crossref"
    /\ UNCHANGED <<parseVars, comment_in, mergeVars>>

\* comment = re.sub(<crossref pattern>, replace_crossref, comment); return
PreCrossref ==
    /\ pc = "pre_crossref"
    /\ IF CrossrefRaises(comment)
       THEN pc' = "ValueError" /\ UNCHANGED comment
       ELSE pc' = "pre_done" /\ comment' = SubCrossref(comment)
    /\ UNCHANGED <<parseVars, comment_in, mergeVars>>

NextPre ==
    \/ PreSectionName
    \/ PreCrossref

SpecPre == InitPre /\ [][NextPre]_vars

(* ------------------------------- highlight ---------------------------- *)

\* renderer['func'](text): the external rendering engine (markdown), kept as
\* an application the model does not look into.
Render(s) == [markdown |-> s]

\* highlight: every section gets html = renderer['func'](preprocess(text))
\* and num = its 0-based position; the sections are changed in place. An
\* exception of preprocess ends the loop.
Highlight ==
    /\ pc = "parsed"
    /\ IF \E k \in 1..Len(sections) : preprocessRaises(sections[k].text)
       THEN /\ pc' = "ValueError"
            /\ UNCHANGED <<sections, doc>>
       ELSE /\ pc' = "highlighted"
            /\ sections' = [k \in 1..Len(sections) |->
                               [text |-> sections[k].text,
                                html |-> Render(preprocess(sections[k].text)),
                                num  |-> k - 1]]
            /\ doc' = [doc EXCEPT !.sections = sections']
    /\ UNCHANGED <<text, renderer, lines, pos, title, chunk, multi_line, preVars,
                   source_doc, translation_doc>>

Next ==
    \/ ParseBegin
    \/ DelimiterLine
    \/ BlockLine
    \/ OrdinaryLine
    \/ BlankLine
    \/ ParseEnd
    \/ Highlight

Spec == InitParse /\ [][Next]_vars

(* ------------------------------ merge_docs ---------------------------- *)

\* The html a highlighted section can carry.
HtmlSet == {"", "<p>a</p>", "<p>b</p>"}

\* The documents handed to merge_docs: parsed and highlighted, so that the
\* k-th section has num = k - 1 and an html entry.
Docs(t, lang) ==
    { [title |-> t, language |-> lang,
       sections |-> [k \in 1..Len(hs) |-> [text |-> <<NL, "a">>, html |-> hs[k], num |-> k - 1]]]
      : hs \in SeqsOf(HtmlSet, 0, MaxSections) }

\* Python's None, the fill value of izip_longest.
None == [none |-> TRUE]

Max(a, b) == IF a >= b THEN a ELSE b

Min(a, b) == IF a <= b THEN a ELSE b

\* zip in place of izip_longest: pairs up to the shorter length only.
izip_shortest(a, b) == [k \in 1..Min(Len(a), Len(b)) |-> <<a[k], b[k]>>]

\* itertools.izip_longest(a, b): pairs by position up to the longer length,
\* None where a side has run out.
izip_longest(a, b) ==
    [k \in 1..Max(Len(a), Len(b)) |->
        <<IF k <= Len(a) THEN a[k] ELSE None, IF k <= Len(b) THEN b[k] ELSE None>>]

\* get_html = lambda section: (section or {}).get('html', '')
get_html(section) ==
    IF section # None /\ "html" \in DOMAIN section THEN section.html ELSE ""

\* The dict appended for the i-th pair (i is 0-based).
MergedSection(i, pair) ==
    [num |-> i, source_html |-> get_html(pair[1]), translation_html |-> get_html(pair[2])]

InitMerge ==
    /\ pc = "merge"
    /\ source_doc \in Docs("source title", "en")
    /\ translation_doc \in Docs("translation title", "ja")
    /\ doc = <<>>
    /\ text = <<>>
    /\ renderer = prepare_renderer
    /\ lines = <<>>
    /\ pos = 1
    /\ title = <<>>
    /\ chunk = <<>>
    /\ multi_line = FALSE
    /\ sections = <<>>
    /\ comment_in = <<>>
    /\ comment = <<>>

\* doc = {titles, languages, 'sections': []}
MergeBegin ==
    /\ pc = "merge"
    /\ doc' = [source_title         |-> source_doc.title,
               translation_title    |-> translation_doc.title,
               source_language      |-> source_doc.language,
               translation_language |-> translation_doc.language,
               sections             |-> <<>>]
    /\ pc' = "merge_loop"
    /\ UNCHANGED <<parseVars, preVars, source_doc, translation_doc>>

\* One turn of the loop over enumerate(izip_longest(...)).
MergeStep ==
    /\ pc = "merge_loop"
    /\ LET pairs == izip_longest(source_doc.sections, translation_doc.sections)
           i     == Len(doc.sections)
       IN  /\ i < Len(pairs)
           /\ doc' = [doc EXCEPT !.sections = Append(@, MergedSection(i, pairs[i + 1]))]
    /\ UNCHANGED <<pc, parseVars, preVars, source_doc, translation_doc>>

\* return doc
MergeReturn ==
    /\ pc = "merge_loop"
    /\ Len(doc.sections) = Len(izip_longest(source_doc.sections, translation_doc.sections))
    /\ pc' = "merged"
    /\ UNCHANGED <<parseVars, preVars, mergeVars>>

NextMerge ==
    \/ MergeBegin
    \/ MergeStep
    \/ MergeReturn

SpecMerge == InitMerge /\ [][NextMerge]_vars

(* ------------------------------- claims ------------------------------- *)

\* The non-empty lines of a sequence of lines.
NonEmpty(ls) == SelectSeq(ls, LAMBDA l : l # <<>>)

\* parse has returned (and highlight may have run).
Parsed == pc \in {"parsed", "highlighted"}

\* C1: every section parse emits has non-empty text, for every input text
\* and every renderer delimiter configuration.
C1_NoEmptySection == \A k \in 1..Len(sections) : Len(sections[k].text) > 0

\* C1 witness: two blank lines in a row were read (the second with an empty
\* buffer), more lines followed, and the parse ended with one section.
C1_Witness ==
    /\ pc = "parsed"
    /\ Len(lines) = 4
    /\ lines[1] = <<>> /\ lines[2] = <<>>
    /\ Len(sections) = 1

\* C2: merge_docs returns max(len(source), len(translation)) sections; the
\* one at position i has num = i and the html of each side's i-th section,
\* the empty string for a side that has no i-th section.
C2_MergeZipsLongest ==
    pc = "merged" =>
        LET a == source_doc.sections
            b == translation_doc.sections
        IN  /\ Len(doc.sections) = (IF Len(a) >= Len(b) THEN Len(a) ELSE Len(b))
            /\ \A k \in 1..Len(doc.sections) :
                  /\ doc.sections[k].num = k - 1
                  /\ doc.sections[k].source_html = (IF k <= Len(a) THEN a[k].html ELSE "")
                  /\ doc.sections[k].translation_html = (IF k <= Len(b) THEN b[k].html ELSE "")

\* C2 witness: a two-section source merged with a one-section translation,
\* both with non-empty html.
C2_Witness ==
    /\ pc = "merged"
    /\ Len(source_doc.sections) = 2
    /\ Len(translation_doc.sections) = 1
    /\ source_doc.sections[2].html # ""
    /\ translation_doc.sections[1].html # ""

\* C3 as stated: with the renderer prepare_renderer builds, no section text
\* contains a delimiter string (both are stripped from every delimiter line).
C3_DelimitersStripped ==
    (Parsed /\ renderer = prepare_renderer) =>
        \A k \in 1..Len(sections) :
            /\ ~Contains(sections[k].text, renderer.multistart)
            /\ ~Contains(sections[k].text, renderer.multiend)

\* What a delimiter line has just put in the buffer or, when it closed the
\* section, at the end of the last section.
LastPut(m, c, secs) ==
    IF m THEN c
    ELSE LET ls == Split(secs[Len(secs)].text, NL) IN ls[Len(ls)]

\* C3 amended: a delimiter line loses the delimiter strings only when the
\* renderer carries a true strip_multi_delimiters entry (with three
\* backticks as both delimiters, no delimiter is then left in what the line
\* puts in the buffer); the renderer
\* prepare_renderer builds carries none, and with it every delimiter line
\* goes into the section text as written.
C3_StripOnlyOnRequest ==
    [][(AtLine /\ IsDelimiterLine(Line, renderer)) =>
          LET put == LastPut(multi_line', chunk', sections')
          IN  IF GetStrip(renderer)
              THEN /\ ~Contains(put, renderer.multistart)
                   /\ ~Contains(put, renderer.multiend)
              ELSE put = Line]_vars

\* C3 witness: with the renderer prepare_renderer builds, a block opened by
\* a ```p line and closed by a ``` line is one section that holds both lines.
C3_Witness ==
    /\ pc = "parsed"
    /\ renderer = prepare_renderer
    /\ lines = << <<BT, BT, BT, "p">>, <<"a">>, <<BT, BT, BT>> >>
    /\ Len(sections) = 1
    /\ sections[1].text = <<BT, BT, BT, "p", NL, "a", NL, BT, BT, BT>>

\* A line that starts with the start delimiter and ends with the end
\* delimiter, with other content between them.
SelfClosing(line, r) ==
    /\ AllDelimiters(r)
    /\ StartsWith(LStrip(line), GetDelim(r, "multistart"))
    /\ EndsWith(RStrip(line), GetDelim(r, "multiend"))
    /\ Len(Strip(line)) > Len(GetDelim(r, "multistart")) + Len(GetDelim(r, "multiend"))

\* C4: a one-line block read outside a block produces exactly one section
\* and leaves the in-block flag false and the buffer empty, so that the next
\* line is handled by the outside-block rules.
C4_SelfClosingLine ==
    [][(AtLine /\ ~multi_line /\ SelfClosing(Line, renderer)) =>
          /\ Len(sections') = Len(sections) + 1
          /\ ~multi_line'
          /\ chunk' = <<>>]_vars

\* C4 witness: the first line after the title was a one-line block; it has
\* been read, one section exists and the flag is off.
C4_Witness ==
    /\ pc = "loop"
    /\ pos = 2
    /\ SelfClosing(lines[1], renderer)
    /\ Len(sections) = 1
    /\ ~multi_line

\* An occurrence at i of [[name]] or [[name#anchor]] that is not
\* immediately preceded by a backtick.
MarkerAt(s, i) ==
    /\ OccursAt(s, <<"[", "[">>, i)
    /\ i = 1 \/ s[i - 1] # BT
    /\ \E j \in (i + 3)..Len(s) :
          /\ OccursAt(s, <<"]", "]">>, j)
          /\ \A k \in (i + 2)..(j - 1) : s[k] \notin {"[", "]", NL}

\* C5: preprocess rewrites every [[name]] / [[name#anchor]] that is not
\* immediately preceded by a backtick, wherever it stands in the text: none
\* is left in the result, and the result has a link for each.
C5_EveryCrossrefRewritten ==
    pc = "pre_done" =>
        /\ \A i \in 1..Len(comment) : ~MarkerAt(comment, i)
        /\ \A i \in 1..Len(comment_in) :
              MarkerAt(comment_in, i) => Contains(comment, <<"]", "(">>)

\* C6: preprocess rewrites every heading line of a section text parse
\* produced, first line or later, into heading markup.
C6_HeadingsRewritten ==
    pc = "highlighted" =>
        \A k \in 1..Len(sections) :
            LET ls == Split(sections[k].text, NL)
            IN  \A n \in 1..Len(ls) :
                    HeadingMatch(ls[n]).ok =>
                        Contains(sections[k].html.markdown, SubSectionName(ls[n]))

\* C7: parse never fails, whatever the text, and a block still open at the
\* end of input is emitted as the final section.
C7_ParseNeverFails ==
    /\ pc # "IndexError"
    /\ (pc = "parsed" /\ chunk # <<>>) => sections[Len(sections)].text = chunk

\* The loop has run out of lines: the final save is next.
AtEnd == pc = "loop" /\ pos > Len(lines)

\* C8 as stated: a section is appended only by a blank line outside a
\* block, by a delimiter line that leaves the flag false, or at the end of
\* input.
C8_ThreeFlushPoints ==
    [][Len(sections') # Len(sections) =>
          \/ AtEnd
          \/ AtLine /\ ~multi_line /\ Line = <<>>
          \/ AtLine /\ IsDelimiterLine(Line, renderer) /\ ~multi_line']_vars

\* C8 amended: a section is appended, one at a time, only at those three
\* points or by a delimiter line that turns the flag on while the buffer is
\* non-empty, which saves the pending buffer (without the line) and starts
\* the new buffer with the line; a delimiter line that turns the flag on
\* with an empty buffer, and a non-delimiter line inside a block, append
\* nothing.
C8_FourFlushPoints ==
    [][Len(sections') # Len(sections) =>
          /\ Len(sections') = Len(sections) + 1
          /\ \/ AtEnd
             \/ AtLine /\ ~multi_line /\ Line = <<>>
             \/ AtLine /\ IsDelimiterLine(Line, renderer) /\ ~multi_line'
             \/ /\ AtLine /\ IsDelimiterLine(Line, renderer) /\ multi_line'
                /\ chunk # <<>>
                /\ sections' = Append(sections, [text |-> chunk])
                /\ chunk' = StripDelimiters(Line, renderer)]_vars

\* C8 witness: an ordinary line, then a block opener: the opener has saved
\* the pending line as a section and the block is open.
C8_Witness ==
    /\ pc = "loop"
    /\ pos = 3
    /\ lines[1] = <<"a">>
    /\ multi_line
    /\ Len(sections) = 1

\* The characters of the model's comments that occur in no marker and in no
\* link.
PlainChars == {"x", BT, "=", "H", "s"}

Plain(s) == SelectSeq(s, LAMBDA c : c \in PlainChars)

\* C9: preprocess changes only the markers it rewrites: when the heading
\* rule does not apply, the characters outside markers (the one before a
\* marker included) are in the result, unchanged and in order.
C9_OnlyMarkersChange ==
    (pc = "pre_done" /\ ~HeadingMatch(comment_in).ok) => Plain(comment) = Plain(comment_in)

\* The lines of a text after its interpreter directive and its title.
Body(t) ==
    LET all   == Split(t, NL)
        noshb == IF StartsWith(all[1], <<"#", "!">>) THEN Tail(all) ELSE all
    IN  Tail(noshb)

\* The non-empty lines of the sections, section by section.
RECURSIVE SectionLines(_)
SectionLines(secs) ==
    IF secs = <<>> THEN <<>>
    ELSE NonEmpty(Split(Head(secs).text, NL)) \o SectionLines(Tail(secs))

\* C10: with the renderer prepare_renderer builds, the non-empty lines of
\* the sections, in order, are exactly the non-empty lines of the body.
C10_NothingLost ==
    (Parsed /\ renderer = prepare_renderer) => SectionLines(sections) = NonEmpty(Body(text))

\* C10 witness: a block opened while the buffer held a pending line, had a
\* blank line inside and was closed.
C10_Witness ==
    /\ pc = "parsed"
    /\ renderer = prepare_renderer
    /\ Len(lines) = 4
    /\ lines[1] = <<"a">>
    /\ lines[2] = <<BT, BT, BT, "p">>
    /\ lines[3] = <<>>
    /\ lines[4] = <<BT, BT, BT>>
    /\ Len(sections) = 2

====
